---- MODULE Spec2Model ----
(***************************************************************************)
(* simplechat: a two-hop chat relay.                                       *)
(*   api/main.py     the Inference Service (run_inference, POST /infer)    *)
(*   lambda/index.py the Edge Relay (lambda_handler)                       *)
(* Python values that cross a JSON boundary are tagged records (k is the   *)
(* JSON type); optional Python values are None == <<>> or Some(x) == <<x>>.*)
(* A Python expression that may raise evaluates to Ok(v) or Raise(t, m).   *)
(***************************************************************************)
EXTENDS Integers, Sequences, FiniteSets, TLC

VARIABLES bedrock_client, pydanticLax, INFERENCE_API_ENDPOINT, backendCalls, call

vars == <<bedrock_client, pydanticLax, INFERENCE_API_ENDPOINT, backendCalls, call>>

(* ------------------------------ bounds -------------------------------- *)
MaxHistory == 2
MaxBackendCalls == 2
MaxRelayHistory == 1

(* --------------------------- Python values ---------------------------- *)
None == << >>
Some(x) == << x >>

Ok(v) == [exc |-> "", v |-> v]
Raise(t, m) == [exc |-> t, msg |-> m]
Raised(o) == o.exc # ""

\* Evaluation continues with F on a value and stops at the first raise.
Try(o, F(_)) == IF Raised(o) THEN o ELSE F(o.v)

JNull == [k |-> "null"]
JBool(b) == [k |-> "bool", b |-> b]
JStr(s) == [k |-> "str", s |-> s]
JNum(n) == [k |-> "num", n |-> n]
JList(l) == [k |-> "list", l |-> l]
JObj(o) == [k |-> "obj", o |-> o]
EmptyDict == JObj(<< >>)

\* Python truth value of a decoded JSON value (the operand of "not").
Truthy(v) ==
    CASE v.k = "null" -> FALSE
      [] v.k = "bool" -> v.b
      [] v.k = "str" -> v.s # ""
      [] v.k = "num" -> v.n # 0
      [] v.k = "list" -> Len(v.l) > 0
      [] v.k = "obj" -> DOMAIN v.o # {}

\* isinstance(v, dict), isinstance(v, list)
IsDict(v) == v.k = "obj"
IsList(v) == v.k = "list"

\* v.get(key): only a dict has .get; a missing key gives None.
DictGet(v, key) ==
    IF ~IsDict(v) THEN Raise("AttributeError", "object has no attribute 'get'")
    ELSE IF key \in DOMAIN v.o THEN Ok(v.o[key]) ELSE Ok(JNull)

\* v.get(key, default)
DictGetDefault(v, key, default) ==
    IF ~IsDict(v) THEN Raise("AttributeError", "object has no attribute 'get'")
    ELSE IF key \in DOMAIN v.o THEN Ok(v.o[key]) ELSE Ok(default)

\* A JSON text: the document it decodes to, or no document at all.
JText(v) == [k |-> "text", valid |-> TRUE, doc |-> v]
BadText == [k |-> "text", valid |-> FALSE]

json_dumps(v) == JText(v)

json_loads(t) ==
    IF t.k # "text" THEN Raise("TypeError", "the JSON object must be str, bytes or bytearray")
    ELSE IF ~t.valid THEN Raise("JSONDecodeError", "Expecting value: line 1 column 1 (char 0)")
    ELSE Ok(t.doc)

(* ------------------------ api/main.py: schema ------------------------- *)
ChatMessage(role, content) == [role |-> role, content |-> content]

InferenceRequest(message, history) == [message |-> message, conversationHistory |-> history]

InferenceResponse(success, response, history, error) ==
    [success |-> success, response |-> response, conversationHistory |-> history, error |-> error]

\* A pydantic str field given a decoded JSON value: a str is kept, a number is
\* converted to its text by a lax build and rejected by a strict one.
StrField(v, lax) ==
    IF v.k = "str" THEN Ok(v.s)
    ELSE IF v.k = "num" /\ lax THEN Ok(ToString(v.n))
    ELSE Raise("ValidationError", "1 validation error: str type expected")

(* --------------------- api/main.py: run_inference --------------------- *)
maxTokens == 512

\* ToBedrockMessages with the role test lost: every turn that is not the
\* user's is sent as the assistant's.
RECURSIVE ToBedrockMessages_NoFilter(_)
ToBedrockMessages_NoFilter(messages) ==
    IF messages = << >> THEN << >>
    ELSE << [role |-> IF Head(messages).role = "user" THEN "user" ELSE "assistant",
             content |-> << [text |-> Head(messages).content] >>] >>
         \o ToBedrockMessages_NoFilter(Tail(messages))

\* Lines 95-106: the loop that converts the turn sequence for the backend.
RECURSIVE ToBedrockMessages(_)
ToBedrockMessages(messages) ==
    IF messages = << >> THEN << >>
    ELSE LET msg == Head(messages)
             rest == ToBedrockMessages(Tail(messages))
         IN IF msg.role = "user"
            THEN << [role |-> "user", content |-> << [text |-> msg.content] >>] >> \o rest
            ELSE IF msg.role = "assistant"
            THEN << [role |-> "assistant", content |-> << [text |-> msg.content] >>] >> \o rest
            ELSE rest

RequestPayload(bedrock_messages) ==
    [messages |-> bedrock_messages,
     inferenceConfig |-> [maxTokens |-> maxTokens, stopSequences |-> << >>,
                          temperature |-> "0.7", topP |-> "0.9"]]

NoValidContent == Raise("Exception", "No valid response content from the model")

\* FirstText testing only that the text key is there.
FirstText_PresenceOnly(content) ==
    IF ~IsDict(content.l[1]) THEN DictGet(content.l[1], "text")
    ELSE IF "text" \notin DOMAIN content.l[1].o THEN NoValidContent
    ELSE Ok(content.l[1].o["text"])

\* Lines 138 and 143: the text of the first content element.
FirstText(content) ==
    LET text == DictGet(content.l[1], "text")
    IN IF Raised(text) THEN text
       ELSE IF ~Truthy(text.v) THEN NoValidContent
       ELSE text

\* Lines 134-143: the short-circuit chain of checks on the backend's body.
ValidateBody(response_body) ==
    LET output == DictGet(response_body, "output")
    IN IF Raised(output) THEN output
       ELSE IF ~Truthy(output.v) \/ ~IsDict(output.v) THEN NoValidContent
       ELSE LET message == DictGet(output.v, "message")
            IN IF ~Truthy(message.v) \/ ~IsDict(message.v) THEN NoValidContent
               ELSE LET content == DictGet(message.v, "content")
                    IN IF ~Truthy(content.v) \/ ~IsList(content.v) THEN NoValidContent
                       ELSE IF Len(content.v.l) = 0 THEN NoValidContent
                       ELSE FirstText(content.v)

\* bedrock_client.invoke_model(...) followed by response['body'].read()
InvokeModel(backend) ==
    IF backend.kind = "body" THEN Ok(backend.body) ELSE Raise(backend.kind, backend.msg)

\* Lines 89-92 and 146: the turn sequence, then the updated history.
FullTurns(request) ==
    request.conversationHistory \o << ChatMessage("user", request.message) >>

\* SuccessResponse appending to the request's history instead of the turn sequence.
SuccessResponse_NoUserTurn(request, assistant_response) ==
    InferenceResponse(TRUE, Some(assistant_response),
        Some(request.conversationHistory \o << ChatMessage("assistant", assistant_response) >>), None)

\* Lines 143-154: the success response built from the generated text.
SuccessResponse(request, assistant_response) ==
    InferenceResponse(TRUE, Some(assistant_response),
        Some(FullTurns(request) \o << ChatMessage("assistant", assistant_response) >>), None)

\* Lines 86-154: the body of the try statement.
TryBody(request, backend, lax) ==
    Try(Try(Try(Try(InvokeModel(backend), json_loads), ValidateBody),
            LAMBDA text : StrField(text, lax)),
        LAMBDA assistant_response : Ok(SuccessResponse(request, assistant_response)))

\* ExceptHandlers without the second clause.
ExceptHandlers_OnlyClientError(o) ==
    IF ~Raised(o) THEN o
    ELSE IF o.exc = "ClientError"
    THEN Ok(InferenceResponse(FALSE, None, None, Some("Bedrock API error: " \o o.msg)))
    ELSE o

\* Lines 156-163: the two except clauses.
ExceptHandlers(o) ==
    IF ~Raised(o) THEN o
    ELSE IF o.exc = "ClientError"
    THEN Ok(InferenceResponse(FALSE, None, None, Some("Bedrock API error: " \o o.msg)))
    ELSE Ok(InferenceResponse(FALSE, None, None, Some(o.msg)))

\* ClientMissing with the test dropped.
ClientMissing_Never(client) == FALSE

\* Line 76
ClientMissing(client) == client = None

\* Lines 66-163. out is what the call returns or raises, sent the payload given
\* to the backend (None when the backend is not invoked).
run_inference(client, lax, request, backend) ==
    IF ClientMissing(client)
    THEN [out |-> Ok(InferenceResponse(FALSE, None, None, Some("Bedrock client not available."))),
          sent |-> None]
    ELSE [out |-> ExceptHandlers(TryBody(request, backend, lax)),
          sent |-> Some(RequestPayload(ToBedrockMessages(FullTurns(request))))]

(* ------------------- api/main.py: the POST /infer route ---------------- *)
\* ChatMessage(BaseModel) built from one decoded JSON item: role and content
\* are required str fields, any other key of the item is ignored.
ParseChatMessage(item, lax) ==
    IF ~IsDict(item) THEN Raise("ValidationError", "value is not a valid dict")
    ELSE IF ~({"role", "content"} \subseteq DOMAIN item.o) THEN Raise("ValidationError", "field required")
    ELSE LET role == StrField(item.o["role"], lax)
             content == StrField(item.o["content"], lax)
         IN IF Raised(role) THEN role
            ELSE IF Raised(content) THEN content
            ELSE Ok(ChatMessage(role.v, content.v))

RECURSIVE ParseHistory(_, _)
ParseHistory(items, lax) ==
    IF items = << >> THEN Ok(<< >>)
    ELSE LET first == ParseChatMessage(Head(items), lax)
             rest == ParseHistory(Tail(items), lax)
         IN IF Raised(first) THEN first
            ELSE IF Raised(rest) THEN rest
            ELSE Ok(<< first.v >> \o rest.v)

\* InferenceRequest(BaseModel) built from the decoded request body.
ParseInferenceRequest(payload, lax) ==
    IF ~IsDict(payload) THEN Raise("ValidationError", "value is not a valid dict")
    ELSE IF "message" \notin DOMAIN payload.o THEN Raise("ValidationError", "field required")
    ELSE LET message == StrField(payload.o["message"], lax)
             given == DictGetDefault(payload, "conversationHistory", JList(<< >>)).v
             history == IF IsList(given) THEN ParseHistory(given.l, lax)
                        ELSE Raise("ValidationError", "value is not a valid list")
         IN IF Raised(message) THEN message
            ELSE IF Raised(history) THEN history
            ELSE Ok(InferenceRequest(message.v, history.v))

OptStr(o) == IF o = None THEN JNull ELSE JStr(o[1])

MessageToJson(msg) == JObj([role |-> JStr(msg.role), content |-> JStr(msg.content)])

\* InferenceResponse serialised by response_model: every field is written,
\* an unset one as null.
ResponseToJson(r) ==
    JObj([success |-> JBool(r.success),
          response |-> OptStr(r.response),
          conversationHistory |->
              IF r.conversationHistory = None THEN JNull
              ELSE JList([i \in 1..Len(r.conversationHistory[1]) |->
                             MessageToJson(r.conversationHistory[1][i])]),
          error |-> OptStr(r.error)])

HttpResponse(status, text) == [status |-> status, text |-> text]

\* The route's reply once the handler has run: 500 when it raised, otherwise
\* 200 with the serialised InferenceResponse.
Serve(r) ==
    IF Raised(r.out) THEN [http |-> HttpResponse(500, BadText), sent |-> r.sent]
    ELSE [http |-> HttpResponse(200, json_dumps(ResponseToJson(r.out.v))), sent |-> r.sent]

Route(request, client, lax, backend) ==
    IF Raised(request)
    THEN [http |-> HttpResponse(422, JText(JObj([detail |-> JStr(request.msg)]))), sent |-> None]
    ELSE Serve(run_inference(client, lax, request.v, backend))

\* The route: 422 for a body that does not fit InferenceRequest, then the handler.
infer_route(client, lax, payload, backend) ==
    Route(ParseInferenceRequest(payload, lax), client, lax, backend)

(* -------------------- lambda/index.py: lambda_handler ------------------ *)
\* key in v
Contains(v, key) ==
    IF IsDict(v) THEN Ok(key \in DOMAIN v.o)
    ELSE IF IsList(v) THEN Ok(FALSE)
    ELSE Raise("TypeError", "argument of type 'NoneType' is not iterable")

\* v[key]
Subscript(v, key) ==
    IF IsDict(v) THEN (IF key \in DOMAIN v.o THEN Ok(v.o[key]) ELSE Raise("KeyError", "'" \o key \o "'"))
    ELSE IF IsList(v) THEN Raise("TypeError", "list indices must be integers or slices, not str")
    ELSE Raise("TypeError", "object is not subscriptable")

\* str(x) of the argument an Exception was built with.
PyStr(v) ==
    CASE v.k = "str" -> v.s
      [] v.k = "null" -> "None"
      [] v.k = "num" -> ToString(v.n)
      [] v.k = "bool" -> IF v.b THEN "True" ELSE "False"
      [] OTHER -> "<repr>"

\* Line 35: the log line reads email, else cognito:username, from the claims.
LogIdentity(user_info) ==
    Try(DictGet(user_info, "email"),
        LAMBDA email : IF Truthy(email) THEN Ok(email) ELSE DictGet(user_info, "cognito:username"))

\* Lines 33-34, second operand of the condition and the assignment.
AuthorizerClaims(context) ==
    Try(Contains(context, "authorizer"),
        LAMBDA has : IF has
                     THEN Try(Try(Subscript(context, "authorizer"),
                                  LAMBDA authorizer : Subscript(authorizer, "claims")),
                              LogIdentity)
                     ELSE Ok(JNull))

\* Lines 32-35: the caller's identity, read for the log line.
UserInfo(event) ==
    Try(Contains(event, "requestContext"),
        LAMBDA has : IF has THEN AuthorizerClaims(event.o["requestContext"]) ELSE Ok(JNull))

\* Lines 39-48
ApiPayload(body) ==
    Try(Subscript(body, "message"),
        LAMBDA message :
            Try(DictGetDefault(body, "conversationHistory", JList(<< >>)),
                LAMBDA conversation_history :
                    Ok(JObj([message |-> message, conversationHistory |-> conversation_history]))))

\* Lines 38-48
ParseBody(event) == Try(Try(Subscript(event, "body"), json_loads), ApiPayload)

\* Line 28: not INFERENCE_API_ENDPOINT
EndpointMissing(endpoint) == endpoint = None \/ endpoint = Some("")

\* Lines 28-48: from the configuration check to the payload for the service.
BuildPayload(endpoint, event) ==
    IF EndpointMissing(endpoint)
    THEN Raise("ValueError", "INFERENCE_API_ENDPOINT environment variable is not set.")
    ELSE Try(UserInfo(event), LAMBDA user_info : ParseBody(event))

\* What requests.post(INFERENCE_API_ENDPOINT, json=api_payload) meets.
ServiceRespond(service, client, lax, payload) ==
    CASE service.kind = "ConnectionError" ->
           [http |-> Raise("ConnectionError", "Max retries exceeded with url: /infer"), sent |-> None]
      [] service.kind = "http" ->
           [http |-> Ok(HttpResponse(service.status, service.text)), sent |-> None]
      [] service.kind = "run_inference" ->
           LET r == infer_route(client, lax, payload, service.backend)
           IN [http |-> Ok(r.http), sent |-> r.sent]

\* response.raise_for_status()
raise_for_status(http) ==
    IF http.status >= 400 THEN Raise("HTTPError", ToString(http.status) \o " Error for url: /infer")
    ELSE Ok(http)

\* response.json(): the decode error is requests.exceptions.JSONDecodeError, a
\* RequestException, in requests 2.27 and later, and a plain ValueError before.
response_json(http, service) ==
    IF http.text.valid THEN Ok(http.text.doc)
    ELSE Raise(service.decodeError, "Expecting value: line 1 column 1 (char 0)")

\* ReadPayload without the test of lines 68-69.
ReadPayload_NoStructureCheck(api_response) ==
    LET success == DictGet(api_response, "success")
        error_message == DictGetDefault(api_response, "error", JStr("Inference API returned an error."))
    IN IF Raised(success) THEN success
       ELSE IF ~Truthy(success.v) THEN Raise("Exception", PyStr(error_message.v))
       ELSE Ok(JObj([success |-> JBool(TRUE), response |-> DictGet(api_response, "response").v,
                     conversationHistory |-> DictGet(api_response, "conversationHistory").v]))

\* Lines 56-69: what the service's payload is read as.
ReadPayload(api_response) ==
    LET success == DictGet(api_response, "success")
        error_message == DictGetDefault(api_response, "error", JStr("Inference API returned an error."))
        assistant_response == DictGet(api_response, "response")
        updated_history == DictGet(api_response, "conversationHistory")
    IN IF Raised(success) THEN success
       ELSE IF ~Truthy(success.v) THEN Raise("Exception", PyStr(error_message.v))
       ELSE IF assistant_response.v = JNull \/ updated_history.v = JNull
       THEN Raise("Exception", "Invalid response structure from Inference API.")
       ELSE Ok(JObj([success |-> JBool(TRUE), response |-> assistant_response.v,
                     conversationHistory |-> updated_history.v]))

CorsHeaders ==
    "Content-Type" :> "application/json"
    @@ "Access-Control-Allow-Origin" :> "*"
    @@ "Access-Control-Allow-Headers" :> "Content-Type,X-Amz-Date,Authorization,X-Api-Key,X-Amz-Security-Token"
    @@ "Access-Control-Allow-Methods" :> "OPTIONS,POST"

GatewayResponse(statusCode, body) ==
    [statusCode |-> statusCode, headers |-> CorsHeaders, body |-> json_dumps(body)]

RequestExceptions == {"ConnectionError", "HTTPError", "RequestsJSONDecodeError"}

\* RelayExceptHandlers without the second clause.
RelayExceptHandlers_OnlyRequestException(o) ==
    IF ~Raised(o) THEN o
    ELSE IF o.exc \in {"ConnectionError", "HTTPError", "RequestsJSONDecodeError"}
    THEN Ok([statusCode |-> 502,
             headers |-> "Content-Type" :> "application/json"
                         @@ "Access-Control-Allow-Origin" :> "*"
                         @@ "Access-Control-Allow-Methods" :> "OPTIONS,POST",
             body |-> json_dumps(JObj([success |-> JBool(FALSE),
                         error |-> JStr("Failed to connect to inference service: " \o o.msg)]))])
    ELSE o

\* Lines 87-117: the two except clauses.
RelayExceptHandlers(o) ==
    IF ~Raised(o) THEN o
    ELSE IF o.exc \in RequestExceptions
    THEN Ok(GatewayResponse(502, JObj([success |-> JBool(FALSE),
                 error |-> JStr("Failed to connect to inference service: " \o o.msg)])))
    ELSE Ok(GatewayResponse(500, JObj([success |-> JBool(FALSE), error |-> JStr(o.msg)])))

\* Lines 54-85: from the service's reply to the success response.
ReadReply(http, service) ==
    Try(Try(Try(Try(http, raise_for_status),
                LAMBDA response : response_json(response, service)),
            ReadPayload),
        LAMBDA body : Ok(GatewayResponse(200, body)))

\* Lines 53-117 once the payload is built.
Exchange(api_payload, reply, service) ==
    [out |-> RelayExceptHandlers(ReadReply(reply.http, service)),
     posted |-> Some(api_payload), sent |-> reply.sent]

Relay(api_payload, client, lax, service) ==
    IF Raised(api_payload)
    THEN [out |-> RelayExceptHandlers(api_payload), posted |-> None, sent |-> None]
    ELSE Exchange(api_payload.v, ServiceRespond(service, client, lax, api_payload.v), service)

\* Lines 14-117. out is what the call returns or raises, posted the payload sent
\* to the Inference Service, sent what the service gave to the backend.
lambda_handler(endpoint, client, lax, event, service) ==
    Relay(BuildPayload(endpoint, event), client, lax, service)

(* ------------------------------ inputs -------------------------------- *)
Roles == {"user", "assistant", "system"}
Contents == {"a"}
UserMessages == {"Hi", ""}
ChatMessages == {ChatMessage(r, c) : r \in Roles, c \in Contents}
Histories == UNION {[1..n -> ChatMessages] : n \in 0..MaxHistory}
Requests == {InferenceRequest(m, h) : m \in UserMessages, h \in Histories}

Field(key, v) == key :> v

\* What the first element of content may be.
Elements ==
    {JObj(Field("text", t)) : t \in {JNull, JStr(""), JStr("Hello!"), JNum(5)}}
    \cup {EmptyDict, JStr("Hello!")}
ContentValues ==
    {JList(<< e >>) : e \in Elements}
    \cup {JList(<< JObj(Field("text", JStr("Hello!"))), JObj(Field("text", JStr("more"))) >>)}
    \cup {JNull, JList(<< >>), JStr("Hello!")}
MessageValues ==
    {JObj(Field("content", c)) : c \in ContentValues}
    \cup {JNull, EmptyDict, JStr("Hello!"), JObj(Field("role", JStr("assistant")))}
OutputValues ==
    {JObj(Field("message", m)) : m \in MessageValues}
    \cup {JNull, EmptyDict, JStr("Hello!")}
Bodies ==
    {JObj(Field("output", o)) : o \in OutputValues}
    \cup {EmptyDict, JList(<< >>), JObj(Field("message", JStr("Too many requests")))}

Backends ==
    {[kind |-> "body", body |-> JText(b)] : b \in Bodies}
    \cup {[kind |-> "body", body |-> BadText]}
    \cup {[kind |-> "ClientError",
           msg |-> "An error occurred (ThrottlingException) when calling the InvokeModel operation"]}
    \cup {[kind |-> "Exception", msg |-> m] : m \in {"", "Could not connect to the endpoint URL"}}

\* History items as the relay's caller may send them: the three roles, an
\* item with a key the schema does not know, an item without content.
InboundItems ==
    {MessageToJson(m) : m \in ChatMessages}
    \cup {JObj([role |-> JStr("user"), content |-> JStr("a"), timestamp |-> JNum(7)]),
          JObj([role |-> JStr("user")])}
InboundHistories == UNION {[1..n -> InboundItems] : n \in 0..MaxRelayHistory}
InboundDocs ==
    {JObj(m @@ h) :
        m \in {<< >>, Field("message", JNull), Field("message", JStr("Hi"))},
        h \in {<< >>, Field("conversationHistory", JStr("a"))}
              \cup {Field("conversationHistory", JList(l)) : l \in InboundHistories}}
    \cup {JList(<< >>)}
InboundBodies ==
    {<< >>, Field("body", JNull), Field("body", BadText)}
    \cup {Field("body", JText(d)) : d \in InboundDocs}
Claims ==
    {JNull, EmptyDict, JObj(Field("email", JStr("a@example.com"))),
     JObj(Field("cognito:username", JStr("alice")))}
RequestContexts ==
    {<< >>, Field("requestContext", EmptyDict),
     Field("requestContext", JObj(Field("authorizer", EmptyDict))),
     Field("requestContext", JObj(Field("authorizer", JObj(Field("principalId", JStr("alice"))))))}
    \cup {Field("requestContext", JObj(Field("authorizer", JObj(Field("claims", c))))) : c \in Claims}
Events == {JObj(rc @@ b) : rc \in RequestContexts, b \in InboundBodies}

\* Payloads a service at the configured URL may answer with. error is read only
\* when success is falsy, response and conversationHistory only when it is truthy.
StubPayloads ==
    {JObj(s @@ e) :
        s \in {<< >>, Field("success", JNull), Field("success", JBool(FALSE))},
        e \in {<< >>, Field("error", JNull), Field("error", JStr("")), Field("error", JStr("boom"))}}
    \cup {JObj(Field("success", s) @@ r @@ h) :
        s \in {JBool(TRUE), JStr("no")},
        r \in {<< >>, Field("response", JNull), Field("response", JStr("")),
               Field("response", JStr("Hello!"))},
        h \in {<< >>, Field("conversationHistory", JNull), Field("conversationHistory", JList(<< >>)),
               Field("conversationHistory", JList(<< MessageToJson(ChatMessage("user", "Hi")) >>))}}
    \cup {JList(<< >>)}
Services ==
    {[kind |-> "ConnectionError"], [kind |-> "http", status |-> 500, text |-> BadText]}
    \cup {[kind |-> "http", status |-> 200, text |-> BadText, decodeError |-> d] :
             d \in {"RequestsJSONDecodeError", "JSONDecodeError"}}
    \cup {[kind |-> "http", status |-> 200, text |-> JText(p)] : p \in StubPayloads}
    \cup {[kind |-> "run_inference", backend |-> b] : b \in Backends}

(* ------------------------------ actions ------------------------------- *)
NoCall == [op |-> "none"]

\* Module import: lines 33-40 of api/main.py, line 9 of lambda/index.py.
Init ==
    /\ bedrock_client \in {None, Some("bedrock-runtime")}
    /\ pydanticLax \in BOOLEAN
    /\ INFERENCE_API_ENDPOINT \in {None, Some("http://inference/infer")}
    /\ backendCalls = 0
    /\ call = NoCall

Sent(sent) == IF sent = None THEN backendCalls ELSE backendCalls + 1

\* One call of POST /infer's handler, from its arguments to its result.
RunInference ==
    /\ call = NoCall
    /\ backendCalls < MaxBackendCalls
    /\ \E request \in Requests, backend \in Backends :
          LET r == run_inference(bedrock_client, pydanticLax, request, backend)
          IN /\ call' = [op |-> "run_inference", request |-> request, backend |-> backend,
                         out |-> r.out, sent |-> r.sent]
             /\ backendCalls' = Sent(r.sent)
    /\ UNCHANGED <<bedrock_client, pydanticLax, INFERENCE_API_ENDPOINT>>

\* One invocation of the relay, from its event to its result.
LambdaHandler ==
    /\ call = NoCall
    /\ backendCalls < MaxBackendCalls
    /\ \E event \in Events, service \in Services :
          LET r == lambda_handler(INFERENCE_API_ENDPOINT, bedrock_client, pydanticLax, event, service)
          IN /\ call' = [op |-> "lambda_handler", event |-> event, service |-> service,
                         out |-> r.out, posted |-> r.posted, sent |-> r.sent]
             /\ backendCalls' = Sent(r.sent)
    /\ UNCHANGED <<bedrock_client, pydanticLax, INFERENCE_API_ENDPOINT>>

\* The result is handed to the caller; nothing of the request outlives it.
Return ==
    /\ call # NoCall
    /\ call' = NoCall
    /\ UNCHANGED <<bedrock_client, pydanticLax, INFERENCE_API_ENDPOINT, backendCalls>>

Next == RunInference \/ LambdaHandler \/ Return

Spec == Init /\ [][Next]_vars

(* ------------------------------ claims -------------------------------- *)
IsInfer == call.op = "run_inference"
IsRelay == call.op = "lambda_handler"

StartsWith(s, prefix) == Len(s) >= Len(prefix) /\ SubSeq(s, 1, Len(prefix)) = prefix

\* C1: every run_inference call returns an InferenceResponse and raises
\* nothing, whatever the backend does; the response is either a success with
\* response and conversationHistory set and error unset, or a failure with
\* error set and response and conversationHistory unset.
C1_WellFormedResponse ==
    IsInfer =>
        /\ ~Raised(call.out)
        /\ \/ /\ call.out.v.success
              /\ call.out.v.response # None
              /\ call.out.v.conversationHistory # None
              /\ call.out.v.error = None
           \/ /\ ~call.out.v.success
              /\ call.out.v.error # None
              /\ call.out.v.response = None
              /\ call.out.v.conversationHistory = None

\* A call whose backend raised something that is no ClientError, and that was
\* answered with a failure.
C1_Witness ==
    /\ IsInfer
    /\ call.sent # None
    /\ call.backend.kind = "Exception"
    /\ ~Raised(call.out)
    /\ ~call.out.v.success

\* C2: on success the returned conversationHistory is the input history, then
\* the user's message, then the assistant's message: two longer than the input,
\* the input turns in place, the last turn's content equal to response.
C2_HistoryRoundTrip ==
    (IsInfer /\ ~Raised(call.out) /\ call.out.v.success) =>
        LET history == call.request.conversationHistory
            updated == call.out.v.conversationHistory[1]
        IN /\ updated = history \o << ChatMessage("user", call.request.message),
                                      ChatMessage("assistant", call.out.v.response[1]) >>
           /\ Len(updated) = Len(history) + 2
           /\ \A i \in 1..Len(history) : updated[i] = history[i]
           /\ updated[Len(updated)].content = call.out.v.response[1]

\* A successful call on a history of two turns that differ.
C2_Witness ==
    /\ IsInfer
    /\ ~Raised(call.out)
    /\ call.out.v.success
    /\ Len(call.request.conversationHistory) >= 2
    /\ call.request.conversationHistory[1] # call.request.conversationHistory[2]

\* The shape C3 names: output object, message object, content a non-empty
\* sequence whose first element is an object.
HasFirstElement(body) ==
    /\ IsDict(body) /\ "output" \in DOMAIN body.o
    /\ IsDict(body.o["output"]) /\ "message" \in DOMAIN body.o["output"].o
    /\ IsDict(body.o["output"].o["message"])
    /\ "content" \in DOMAIN body.o["output"].o["message"].o
    /\ IsList(body.o["output"].o["message"].o["content"])
    /\ Len(body.o["output"].o["message"].o["content"].l) > 0
    /\ IsDict(body.o["output"].o["message"].o["content"].l[1])

FirstElement(body) == body.o["output"].o["message"].o["content"].l[1].o

HasTextField(body) == HasFirstElement(body) /\ "text" \in DOMAIN FirstElement(body)

\* The text is a non-empty string, or a number other than 0 where the schema
\* library converts numbers to strings.
HasUsableText(body) ==
    /\ HasTextField(body)
    /\ \/ FirstElement(body)["text"].k = "str" /\ FirstElement(body)["text"].s # ""
       \/ FirstElement(body)["text"].k = "num" /\ FirstElement(body)["text"].n # 0 /\ pydanticLax

BackendAnswered == IsInfer /\ call.sent # None /\ call.backend.kind = "body" /\ call.backend.body.valid

FailedWithError ==
    /\ ~call.out.v.success
    /\ call.out.v.error # None
    /\ call.out.v.error[1] # ""

IsChatRole(msg) == msg.role \in {"user", "assistant"}

\* C4: the messages sent to the backend are the user and assistant turns of
\* history ++ [user message], in order, each a role tag with a one-element list
\* holding its text; turns of another role are not sent, and on success they
\* are still at their positions in the returned conversationHistory.
C4_PayloadTranslation ==
    (IsInfer /\ call.sent # None) =>
        LET history == call.request.conversationHistory
            kept == SelectSeq(history \o << ChatMessage("user", call.request.message) >>, IsChatRole)
        IN /\ call.sent[1].messages =
                  [i \in 1..Len(kept) |-> [role |-> kept[i].role, content |-> << [text |-> kept[i].content] >>]]
           /\ (~Raised(call.out) /\ call.out.v.success) =>
                  \A i \in 1..Len(history) : call.out.v.conversationHistory[1][i] = history[i]

\* A successful call whose history holds a turn of another role and one that is sent.
C4_Witness ==
    /\ IsInfer
    /\ call.sent # None
    /\ ~Raised(call.out)
    /\ call.out.v.success
    /\ \E i, j \in 1..Len(call.request.conversationHistory) :
          /\ ~IsChatRole(call.request.conversationHistory[i])
          /\ IsChatRole(call.request.conversationHistory[j])

Unavailable == Ok(InferenceResponse(FALSE, None, None, Some("Bedrock client not available.")))

\* C5: the client handle is never written after startup, and while it is
\* missing every call fails with the backend-unavailable error and nothing
\* is sent to the backend.
C5_ClientNeverRetried ==
    [][/\ bedrock_client' = bedrock_client
       /\ bedrock_client = None =>
            /\ backendCalls' = backendCalls
            /\ call'.op = "run_inference" => (call'.out = Unavailable /\ call'.sent = None)
            /\ call'.op = "lambda_handler" => call'.sent = None]_vars

\* A call made while the client is missing.
C5_Witness ==
    /\ bedrock_client = None
    /\ IsInfer
    /\ call.out = Unavailable
    /\ Len(call.request.conversationHistory) > 0

RelayStatus == call.out.v.statusCode
RelayBody == call.out.v.body.doc.o

\* What the Inference Service did with the request of this call.
Reply == ServiceRespond(call.service, bedrock_client, pydanticLax, call.posted[1]).http

\* The request did not get through, or came back with an HTTP error status.
TransportFailure ==
    /\ call.posted # None
    /\ Raised(Reply) \/ Reply.v.status >= 400

\* The service answered 2xx with a JSON document.
Answered ==
    /\ call.posted # None
    /\ ~Raised(Reply)
    /\ Reply.v.status < 300
    /\ Reply.v.text.valid

Payload == Reply.v.text.doc

Present(v, key) == key \in DOMAIN v.o /\ v.o[key] # JNull

\* C6: status 502 with success=false and an error that starts with "Failed to
\* connect to inference service: " exactly for a transport failure reaching
\* the Inference Service; status 500 with success=false for every other
\* failure; without INFERENCE_API_ENDPOINT nothing is sent to the service.
C6_StatusByOrigin ==
    (IsRelay /\ ~Raised(call.out)) =>
        /\ TransportFailure <=>
              /\ RelayStatus = 502
              /\ RelayBody["success"] = JBool(FALSE)
              /\ StartsWith(RelayBody["error"].s, "Failed to connect to inference service: ")
        /\ (RelayStatus # 200 /\ ~TransportFailure) =>
              (RelayStatus = 500 /\ RelayBody["success"] = JBool(FALSE))
        /\ INFERENCE_API_ENDPOINT = None => call.posted = None

\* C7: every invocation returns a record and raises nothing; statusCode is
\* 200, 502 or 500; the headers allow every origin and the methods
\* OPTIONS,POST; the body's success is true exactly when statusCode is 200.
C7_RelayTotal ==
    IsRelay =>
        /\ ~Raised(call.out)
        /\ RelayStatus \in {200, 502, 500}
        /\ "Access-Control-Allow-Origin" \in DOMAIN call.out.v.headers
        /\ call.out.v.headers["Access-Control-Allow-Origin"] = "*"
        /\ "Access-Control-Allow-Methods" \in DOMAIN call.out.v.headers
        /\ call.out.v.headers["Access-Control-Allow-Methods"] = "OPTIONS,POST"
        /\ RelayBody["success"] = JBool(TRUE) <=> RelayStatus = 200

\* An invocation that failed before any request was sent, on an inbound body
\* that is not JSON.
C7_Witness ==
    /\ IsRelay
    /\ ~Raised(call.out)
    /\ INFERENCE_API_ENDPOINT # None
    /\ "body" \in DOMAIN call.event.o
    /\ call.event.o["body"] = BadText
    /\ RelayStatus = 500

\* The history of the inbound body, as sent.
InboundHistory ==
    LET doc == call.event.o["body"].doc
    IN IF "conversationHistory" \in DOMAIN doc.o THEN doc.o["conversationHistory"].l ELSE << >>

UserTurn == MessageToJson(ChatMessage("user", call.event.o["body"].doc.o["message"].s))
AssistantTurn == JObj([role |-> JStr("assistant"), content |-> RelayBody["response"]])

\* Role and content of an inbound item, its other keys left out.
SchemaFields(item) == JObj([role |-> item.o["role"], content |-> item.o["content"]])

StructuralError == JStr("Invalid response structure from Inference API.")

Fallback == JStr("Inference API returned an error.")

\* C9: a 200 answer whose success is false or absent gives status 500 with
\* success=false and the payload's error as the error, or the fallback message
\* when the payload carries no usable error value.
C9_ErrorPassedThrough ==
    (/\ IsRelay /\ ~Raised(call.out) /\ Answered /\ IsDict(Payload)
     /\ ("success" \notin DOMAIN Payload.o \/ Payload.o["success"] = JBool(FALSE))) =>
        /\ RelayStatus = 500
        /\ RelayBody["success"] = JBool(FALSE)
        /\ RelayBody["error"] =
              IF "error" \in DOMAIN Payload.o /\ Payload.o["error"].k = "str"
              THEN Payload.o["error"] ELSE Fallback

\* The event of this call with requestContext left out.
WithoutContext(event) == JObj([key \in DOMAIN event.o \ {"requestContext"} |-> event.o[key]])

Twin == lambda_handler(INFERENCE_API_ENDPOINT, bedrock_client, pydanticLax,
                       WithoutContext(call.event), call.service)

\* C10: two events that differ only in requestContext, under the same service
\* behaviour, get the same statusCode and body and cause the same request to
\* the Inference Service.
C10_ContextIgnored ==
    IsRelay =>
        /\ call.out = Twin.out
        /\ call.posted = Twin.posted

====
